---- MODULE Spec2Model ----
(***************************************************************************)
(* Markup engine of the SummaryPanel component (src/unnamed/part_003):     *)
(* the inline resolver (renderContent / parseHTMLColors / parseBoldText),  *)
(* the block classifier (formatSummary), the export renderer               *)
(* (convertToHTML / formatHTMLContent) and the plain-text extractor        *)
(* (stripHTMLTags); the copy action of the component (handleCopy); and the *)
(* streaming reader of the chat service (sendStreamingChatQuery,           *)
(* src/frontend/src/services/ChatService.js).                              *)
(*                                                                         *)
(* A JavaScript string is modelled as a sequence of one-character strings. *)
(* Offsets are 0-based as in the source: substring(t, a, b) is the         *)
(* characters a .. b-1.                                                    *)
(***************************************************************************)
EXTENDS Integers, Sequences, FiniteSets, TLC

VARIABLES
    text,       \* the argument the operation under study is applied to
    pc,         \* "ready" before the operation, its name after it
    parts,      \* result of parseHTMLColors / parseBoldText
    formatted,  \* result of formatSummary
    html,       \* result of formatHTMLContent, or the elements of convertToHTML
    plainText,  \* result of stripHTMLTags
    rendered,   \* the elements the component renders for the blocks
    copied,     \* state of the component: the copy succeeded
    copyError,  \* state of the component: the copy failed
    copies,     \* the calls of handleCopy so far, each with its local state
    timers,     \* the pending setTimeout callbacks, in the order they were set
    clipboard,  \* the texts written to the clipboard, in order
    raiser,     \* for each flag, the call of handleCopy that last set it true
    reads,      \* the chunks reader.read() has still to return
    buffer,     \* let buffer of sendStreamingChatQuery
    delivered,  \* the values passed to onChunk, in order
    reader      \* "idle", "open" while the loop runs, "done" after the break

markupVars == <<pc, parts, formatted, html, plainText, rendered>>
copyVars == <<copied, copyError, copies, timers, clipboard, raiser>>
streamVars == <<reads, buffer, delivered, reader>>
vars == <<text, markupVars, copyVars, streamVars>>

(***************************************************************************)
(* Bounds of the model.                                                    *)
(***************************************************************************)
\* number of vocabulary tokens an inline fragment is built from
MaxInlineTokens == 4
\* number of vocabulary tokens a plain-text extractor input is built from
MaxStripTokens == 3
\* number of text tokens between the markers of a nested inline fragment
MaxBodyTokens == 1
\* number of vocabulary tokens a multi-line summary is built from
MaxBlockTokens == 4
\* number of clicks on the copy button
MaxCopies == 2
\* number of vocabulary tokens a streamed response body is built from
MaxStreamTokens == 4

(***************************************************************************)
(* Strings.                                                                *)
(***************************************************************************)
Min(S) == CHOOSE m \in S : \A o \in S : m <= o

RECURSIVE Concat(_)
Concat(ss) == IF ss = <<>> THEN <<>> ELSE Head(ss) \o Concat(Tail(ss))

\* String.prototype.substring(a, b) and substring(a)
substring(t, a, b) == SubSeq(t, a + 1, b)
substringFrom(t, a) == SubSeq(t, a + 1, Len(t))

\* the regex flag i: letters compare by their lower-case form
UpperToLower ==
    [c \in {"B", "S", "T", "R", "O", "N", "G", "P", "A", "F", "Y", "L", "E", "C"} |->
        CASE c = "B" -> "b" [] c = "S" -> "s" [] c = "T" -> "t" [] c = "R" -> "r"
          [] c = "O" -> "o" [] c = "N" -> "n" [] c = "G" -> "g" [] c = "P" -> "p"
          [] c = "A" -> "a" [] c = "F" -> "f" [] c = "Y" -> "y" [] c = "L" -> "l"
          [] c = "E" -> "e" [] c = "C" -> "c"]
Lower(c) == IF c \in DOMAIN UpperToLower THEN UpperToLower[c] ELSE c
LowerSeq(t) == [i \in 1..Len(t) |-> Lower(t[i])]

\* the regex class \s, the characters `.` refuses, and the class ['"]
IsSpace(c) == c \in {" ", "\t", "\n", "\r"}
IsLineTerminator(c) == c \in {"\n", "\r"}
IsQuote(c) == c \in {"'", "\""}

\* literal lit occurs in t at offset i
At(t, lit, i) == i >= 0 /\ i + Len(lit) <= Len(t) /\ SubSeq(t, i + 1, i + Len(lit)) = lit

\* offset of the first occurrence of lit in t at or after offset from, or -1
IndexOf(t, lit, from) ==
    LET hits == {i \in from..(Len(t) - Len(lit)) : At(t, lit, i)}
    IN IF hits = {} THEN -1 ELSE Min(hits)

\* offset of the first quote character of t at or after offset from, or -1
FirstQuote(t, from) ==
    LET hits == {i \in from..(Len(t) - 1) : IsQuote(t[i + 1])}
    IN IF hits = {} THEN -1 ELSE Min(hits)

NoLineTerminator(t, a, b) == \A i \in (a + 1)..b : ~IsLineTerminator(t[i])

\* String.prototype.trim()
RECURSIVE trimStart(_)
trimStart(t) == IF t # <<>> /\ IsSpace(Head(t)) THEN trimStart(Tail(t)) ELSE t
RECURSIVE trimEnd(_)
trimEnd(t) ==
    IF t # <<>> /\ IsSpace(t[Len(t)]) THEN trimEnd(SubSeq(t, 1, Len(t) - 1)) ELSE t
\* a trim that leaves the whitespace at the end
trimStartOnly(t) == trimStart(t)
trim(t) == trimEnd(trimStart(t))

(***************************************************************************)
(* Regular expressions of the form OPEN(.*?)CLOSE with the flag g.  A      *)
(* match is [type, index, length, text, color]: the pattern that matched,  *)
(* the offset of the match, the length of match[0], the lazy group (.*?)   *)
(* and, for colour tags, the colour group.  index = -1 stands for exec()   *)
(* returning null.                                                         *)
(***************************************************************************)
NoMatch == [type |-> "none", index |-> -1, length |-> 0, text |-> <<>>, color |-> <<>>]

\* An opening pattern answers, for an offset i, [ok, body, color]: whether it
\* matches at i, the offset right after it, and its colour group.
NoOpen == [ok |-> FALSE, body |-> 0, color |-> <<>>]

\* literal opening marker: `**`, `<b>`, `<strong>` (lt is the lower-cased text)
LiteralOpen(lt, lit, i) ==
    IF At(lt, lit, i) THEN [ok |-> TRUE, body |-> i + Len(lit), color |-> <<>>] ELSE NoOpen

\* number of \s characters of t from offset p on
RECURSIVE SpaceRun(_, _)
SpaceRun(t, p) == IF p < Len(t) /\ IsSpace(t[p + 1]) THEN 1 + SpaceRun(t, p + 1) ELSE 0

\* <font\s+color=['"]([^'"]+?)['"]> : the group runs from offset g to the next
\* quote, at offset q, which `>` must follow
FontGroup(t, g, q) ==
    IF q <= g \/ ~At(t, <<">">>, q + 1) THEN NoOpen
    ELSE [ok |-> TRUE, body |-> q + 2, color |-> substring(t, g, q)]

FontColor(t, lt, p) ==
    IF ~At(lt, <<"c", "o", "l", "o", "r", "=">>, p) THEN NoOpen
    ELSE IF ~(p + 6 < Len(t) /\ IsQuote(t[p + 7])) THEN NoOpen
    ELSE FontGroup(t, p + 7, FirstQuote(t, p + 7))

FontOpen(t, lt, i) ==
    IF ~At(lt, <<"<", "f", "o", "n", "t">>, i) \/ SpaceRun(t, i + 5) = 0 THEN NoOpen
    ELSE FontColor(t, lt, i + 5 + SpaceRun(t, i + 5))

\* <span\s+style=['"]color:\s*([^'"]+?);?['"]> : up to the closing quote, at
\* offset q, the run after `color:` is \s* (greedy, but leaving one character to
\* the group), the lazy group from offset g, and an optional `;`
SpanGroup(t, g, q) ==
    substring(t, g, IF q - g >= 2 /\ t[q] = ";" THEN q - 1 ELSE q)

SpanValue(t, r, q) ==
    IF q <= r \/ ~At(t, <<">">>, q + 1) THEN NoOpen
    ELSE [ok |-> TRUE, body |-> q + 2,
          color |-> SpanGroup(t, r + Min({SpaceRun(t, r), q - r - 1}), q)]

SpanStyle(t, lt, p) ==
    IF ~At(lt, <<"s", "t", "y", "l", "e", "=">>, p) THEN NoOpen
    ELSE IF ~(p + 6 < Len(t) /\ IsQuote(t[p + 7])) THEN NoOpen
    ELSE IF ~At(lt, <<"c", "o", "l", "o", "r", ":">>, p + 7) THEN NoOpen
    ELSE SpanValue(t, p + 13, FirstQuote(t, p + 13))

SpanOpen(t, lt, i) ==
    IF ~At(lt, <<"<", "s", "p", "a", "n">>, i) \/ SpaceRun(t, i + 5) = 0 THEN NoOpen
    ELSE SpanStyle(t, lt, i + 5 + SpaceRun(t, i + 5))

StarsClose  == <<"*", "*">>
BClose      == <<"<", "/", "b", ">">>
StrongClose == <<"<", "/", "s", "t", "r", "o", "n", "g", ">">>
SpanClose   == <<"<", "/", "s", "p", "a", "n", ">">>
FontClose   == <<"<", "/", "f", "o", "n", "t", ">">>

\* the five patterns, named by the type the source gives their matches
OpenAt(type, t, lt, i) ==
    CASE type = "markdown" -> LiteralOpen(t, <<"*", "*">>, i)
      [] type = "b"        -> LiteralOpen(lt, <<"<", "b", ">">>, i)
      [] type = "strong"   -> LiteralOpen(lt, <<"<", "s", "t", "r", "o", "n", "g", ">">>, i)
      [] type = "span"     -> SpanOpen(t, lt, i)
      [] type = "font"     -> FontOpen(t, lt, i)

CloseOf(type) ==
    CASE type = "markdown" -> StarsClose
      [] type = "b"        -> BClose
      [] type = "strong"   -> StrongClose
      [] type = "span"     -> SpanClose
      [] type = "font"     -> FontClose

\* the match that starts at offset i with the opening o and the closing marker
\* at offset j, or NoMatch: no line terminator may precede the closing marker
\* a match that ends before its closing marker
MatchOfWithoutCloser(type, t, i, o, j) ==
    IF j < 0 \/ ~NoLineTerminator(t, o.body, j) THEN NoMatch
    ELSE [type |-> type, index |-> i, length |-> j - i,
          text |-> substring(t, o.body, j), color |-> o.color]

MatchOf(type, t, i, o, j) ==
    IF j < 0 \/ ~NoLineTerminator(t, o.body, j) THEN NoMatch
    ELSE [type |-> type, index |-> i, length |-> j + Len(CloseOf(type)) - i,
          text |-> substring(t, o.body, j), color |-> o.color]

\* the lazy group ends at the first closing marker after the opening o
MatchAfter(type, t, lt, i, o) ==
    IF ~o.ok THEN NoMatch ELSE MatchOf(type, t, i, o, IndexOf(lt, CloseOf(type), o.body))

\* the match of the pattern that starts at offset i, or NoMatch
MatchAt(type, t, lt, i) == MatchAfter(type, t, lt, i, OpenAt(type, t, lt, i))

\* pattern.exec(text) with lastIndex = from: the leftmost match at or after from
MatchStarts(type, t, lt, from) ==
    {i \in from..(Len(t) - 1) : MatchAt(type, t, lt, i).index >= 0}
LeftmostMatch(type, t, lt, starts) ==
    IF starts = {} THEN NoMatch ELSE MatchAt(type, t, lt, Min(starts))
Exec(type, t, lt, from) == LeftmostMatch(type, t, lt, MatchStarts(type, t, lt, from))

\* while ((match = pattern.exec(text)) !== null) allMatches.push(...)
RECURSIVE ExecAll(_, _, _, _)
ExecLoop(type, t, lt, m) ==
    IF m.index < 0 THEN <<>> ELSE <<m>> \o ExecAll(type, t, lt, m.index + m.length)
ExecAll(type, t, lt, from) == ExecLoop(type, t, lt, Exec(type, t, lt, from))

\* the patterns without the flag i see the text, the others its lower-case form
markdownBoldMatches(t) == ExecAll("markdown", t, t, 0)
bTagMatches(t)         == ExecAll("b", t, LowerSeq(t), 0)
strongTagMatches(t)    == ExecAll("strong", t, LowerSeq(t), 0)
spanMatches(t)         == ExecAll("span", t, LowerSeq(t), 0)
fontMatches(t)         == ExecAll("font", t, LowerSeq(t), 0)

\* allMatches.sort((a, b) => a.index - b.index): a stable insertion sort
RECURSIVE InsertByIndex(_, _)
InsertByIndex(sorted, m) ==
    IF sorted = <<>> THEN <<m>>
    ELSE IF sorted[Len(sorted)].index <= m.index THEN Append(sorted, m)
    ELSE Append(InsertByIndex(SubSeq(sorted, 1, Len(sorted) - 1), m), sorted[Len(sorted)])
RECURSIVE SortByIndex(_)
SortByIndex(ms) ==
    IF ms = <<>> THEN <<>>
    ELSE InsertByIndex(SortByIndex(SubSeq(ms, 1, Len(ms) - 1)), ms[Len(ms)])

(***************************************************************************)
(* The inline resolver.  A part is one element of the array a parser       *)
(* returns: a <span> of plain text, a <strong>, or a coloured <span> with  *)
(* its inner parts.  index is the offset its React key carries, base the   *)
(* offset carried by the key prefix, and length the number of characters   *)
(* of the parsed text it was cut from.                                     *)
(***************************************************************************)
PlainPart(t, base, index) ==
    [type |-> "plain", text |-> t, color |-> <<>>, inner |-> <<>>,
     base |-> base, index |-> index, length |-> Len(t)]
BoldPart(m, base) ==
    [type |-> "bold", text |-> m.text, color |-> <<>>, inner |-> <<>>,
     base |-> base, index |-> m.index, length |-> m.length]
ColorPart(m, inner) ==
    [type |-> "color", text |-> <<>>, color |-> m.color, inner |-> inner,
     base |-> 0, index |-> m.index, length |-> m.length]

\* allMatches of parseBoldText, sorted by position
boldAllMatches(t) ==
    SortByIndex(markdownBoldMatches(t) \o bTagMatches(t) \o strongTagMatches(t))

\* one turn of allMatches.forEach in parseBoldText; w = [parts, lastIndex]
boldStep(t, base, w, m) ==
    LET before == IF m.index > w.lastIndex
                  THEN <<PlainPart(substring(t, w.lastIndex, m.index), base, w.lastIndex)>>
                  ELSE <<>>
    IN [parts |-> w.parts \o before \o <<BoldPart(m, base)>>,
        lastIndex |-> m.index + m.length]

RECURSIVE boldWalk(_, _, _, _)
boldWalk(t, base, ms, w) ==
    IF ms = <<>> THEN w ELSE boldWalk(t, base, Tail(ms), boldStep(t, base, w, Head(ms)))

\* boldRemaining with the remaining text cut one character late
boldRemainingOffByOne(t, base, w) ==
    IF w.lastIndex < Len(t)
    THEN Append(w.parts, PlainPart(substringFrom(t, w.lastIndex + 1), base, w.lastIndex))
    ELSE w.parts

\* the remaining text after the last match
boldRemaining(t, base, w) ==
    IF w.lastIndex < Len(t)
    THEN Append(w.parts, PlainPart(substringFrom(t, w.lastIndex), base, w.lastIndex))
    ELSE w.parts

\* if no bold was found, the text as one plain part
boldAlwaysPlain(t, base, ps) == <<PlainPart(t, base, 0)>>
boldOrPlain(t, base, ps) == IF Len(ps) = 0 THEN <<PlainPart(t, base, 0)>> ELSE ps

parseBoldText(t, base) ==
    boldOrPlain(t, base,
        boldRemaining(t, base,
            boldWalk(t, base, boldAllMatches(t), [parts |-> <<>>, lastIndex |-> 0])))

\* color: match[1].trim() of every match pushed to allMatches
trimColors(ms) == [k \in 1..Len(ms) |-> [ms[k] EXCEPT !.color = trim(@)]]

\* allMatches of parseHTMLColors, sorted by position
colorAllMatches(t) == SortByIndex(trimColors(spanMatches(t)) \o trimColors(fontMatches(t)))

\* colorStep without the text before the colour tag
colorStepWithoutBefore(t, w, m) ==
    [parts |-> Append(w.parts, ColorPart(m, parseBoldText(m.text, m.index))),
     lastIndex |-> m.index + m.length]

\* one turn of allMatches.forEach in parseHTMLColors
colorStep(t, w, m) ==
    LET before == IF m.index > w.lastIndex
                  THEN parseBoldText(substring(t, w.lastIndex, m.index), w.lastIndex)
                  ELSE <<>>
        innerContent == parseBoldText(m.text, m.index)
    IN [parts |-> w.parts \o before \o <<ColorPart(m, innerContent)>>,
        lastIndex |-> m.index + m.length]

RECURSIVE colorWalk(_, _, _)
colorWalk(t, ms, w) ==
    IF ms = <<>> THEN w ELSE colorWalk(t, Tail(ms), colorStep(t, w, Head(ms)))

colorRemaining(t, w) ==
    IF w.lastIndex < Len(t)
    THEN w.parts \o parseBoldText(substringFrom(t, w.lastIndex), w.lastIndex)
    ELSE w.parts

\* if no colour tag was found, just the bold parse
colorOrBold(t, ps) == IF Len(ps) = 0 THEN parseBoldText(t, 0) ELSE ps

parseHTMLColors(t) ==
    colorOrBold(t,
        colorRemaining(t,
            colorWalk(t, colorAllMatches(t), [parts |-> <<>>, lastIndex |-> 0])))

\* renderContent without its `if (!content) return content`
renderContentUnguarded(content) == parseHTMLColors(content)

\* renderContent returns a falsy content unchanged: the empty string has no parts
renderContent(content) == IF content = <<>> THEN <<>> ELSE parseHTMLColors(content)



(***************************************************************************)
(* String.prototype.replace.                                               *)
(***************************************************************************)
\* t with each of the successive matches ms replaced by its replacement in reps
RECURSIVE replaceMatches(_, _, _, _)
replaceMatches(t, ms, reps, from) ==
    IF ms = <<>> THEN substringFrom(t, from)
    ELSE substring(t, from, Head(ms).index) \o Head(reps)
            \o replaceMatches(t, Tail(ms), Tail(reps), Head(ms).index + Head(ms).length)

\* t.replace(/lit/g, rep) for a literal lit
RECURSIVE replaceLiteral(_, _, _)
replaceLiteral(t, lit, rep) ==
    LET i == IndexOf(t, lit, 0)
    IN IF i < 0 THEN t
       ELSE substring(t, 0, i) \o rep \o replaceLiteral(substringFrom(t, i + Len(lit)), lit, rep)

(***************************************************************************)
(* The export renderer's inline formatting.                                *)
(***************************************************************************)
StrongTag == <<"<", "s", "t", "r", "o", "n", "g", ">">>

\* '<strong>$1</strong>'
toStrong(m) == StrongTag \o m.text \o StrongClose
\* '<span style="color:$1">$2</span>'
toColorSpan(m) ==
    <<"<", "s", "p", "a", "n", " ", "s", "t", "y", "l", "e", "=", "\"",
      "c", "o", "l", "o", "r", ":">> \o m.color \o <<"\"", ">">> \o m.text \o SpanClose

replaceWithStrong(t, ms) ==
    replaceMatches(t, ms, [k \in 1..Len(ms) |-> toStrong(ms[k])], 0)
replaceWithColorSpan(t, ms) ==
    replaceMatches(t, ms, [k \in 1..Len(ms) |-> toColorSpan(ms[k])], 0)

\* content.replace(/\*\*(.*?)\*\*/g, '<strong>$1</strong>')
boldToStrong(content) == replaceWithStrong(content, markdownBoldMatches(content))
\* formatted.replace(/<b>(.*?)<\/b>/gi, '<strong>$1</strong>')
bTagToStrong(f) == replaceWithStrong(f, bTagMatches(f))
\* formatted.replace(/<font ...>(.*?)<\/font>/gi, '<span style="color:$1">$2</span>')
fontToColorSpan(f) == replaceWithColorSpan(f, fontMatches(f))

formatHTMLContent(content) == fontToColorSpan(bTagToStrong(boldToStrong(content)))

(***************************************************************************)
(* The plain-text extractor.                                               *)
(***************************************************************************)
\* removeTags without the flag g: only the first tag goes
removeFirstTag(t) ==
    LET i == IndexOf(t, <<"<">>, 0)
        j == IF i < 0 THEN -1 ELSE IndexOf(t, <<">">>, i + 1)
    IN IF j < 0 THEN t ELSE substring(t, 0, i) \o substringFrom(t, j + 1)

\* removeTags with the pattern /<[^>]+>/g: the tag `<>` stays
RECURSIVE removeNonEmptyTags(_)
removeNonEmptyTags(t) ==
    LET hits == {i \in 0..(Len(t) - 1) :
                    t[i + 1] = "<" /\ IndexOf(t, <<">">>, i + 1) > i + 1}
    IN IF hits = {} THEN t
       ELSE substring(t, 0, Min(hits))
                \o removeNonEmptyTags(substringFrom(t, IndexOf(t, <<">">>, Min(hits) + 1) + 1))

\* text.replace(/<[^>]*>/g, ''): a `<` with a `>` after it goes with
\* everything up to the first such `>`
RECURSIVE removeTags(_)
removeTags(t) ==
    LET i == IndexOf(t, <<"<">>, 0)
        j == IF i < 0 THEN -1 ELSE IndexOf(t, <<">">>, i + 1)
    IN IF j < 0 THEN t
       ELSE substring(t, 0, i) \o removeTags(substringFrom(t, j + 1))

\* the chain of replace calls that decodes the entities, in the source's order
decodeEntities(t) ==
    LET nbsp == replaceLiteral(t,    <<"&", "n", "b", "s", "p", ";">>, <<" ">>)
        amp  == replaceLiteral(nbsp, <<"&", "a", "m", "p", ";">>, <<"&">>)
        lt   == replaceLiteral(amp,  <<"&", "l", "t", ";">>, <<"<">>)
        gt   == replaceLiteral(lt,   <<"&", "g", "t", ";">>, <<">">>)
        quot == replaceLiteral(gt,   <<"&", "q", "u", "o", "t", ";">>, <<"\"">>)
        n39  == replaceLiteral(quot, <<"&", "#", "3", "9", ";">>, <<"'">>)
    IN replaceLiteral(n39, <<"&", "a", "p", "o", "s", ";">>, <<"'">>)

\* an extractor that removes the bold markers as well
stripHTMLTagsAndBold(t) ==
    IF t = <<>> THEN <<>>
    ELSE replaceLiteral(decodeEntities(removeTags(t)), <<"*", "*">>, <<>>)

stripHTMLTags(t) == IF t = <<>> THEN <<>> ELSE decodeEntities(removeTags(t))

(***************************************************************************)
(* The block classifier.  A block is [type, content, index]: the key of    *)
(* the pushed object is `${type}-${index}`; a 'space' has no content.      *)
(***************************************************************************)
\* split with the empty lines dropped
RECURSIVE splitSkippingEmpty(_)
splitSkippingEmpty(t) ==
    LET i == IndexOf(t, <<"\n">>, 0)
    IN IF i < 0 THEN (IF t = <<>> THEN <<>> ELSE <<t>>)
       ELSE (IF i = 0 THEN <<>> ELSE <<substring(t, 0, i)>>)
                \o splitSkippingEmpty(substringFrom(t, i + 1))

\* text.split('\n')
RECURSIVE split(_)
split(t) ==
    LET i == IndexOf(t, <<"\n">>, 0)
    IN IF i < 0 THEN <<t>> ELSE <<substring(t, 0, i)>> \o split(substringFrom(t, i + 1))

IsDigit(c) == c \in {"0", "1", "2", "3", "4", "5", "6", "7", "8", "9"}
\* the class [-*•]; the character U+2022 is written "BULLET"
IsBulletMarker(c) == c \in {"-", "*", "BULLET"}

\* a test for the literal anywhere in t
includes(t, lit) == IndexOf(t, lit, 0) >= 0
startsWith(t, lit) == At(t, lit, 0)

\* trimmed.replace(/^##\s*/, '') and trimmed.replace(/^#\s*/, '')
stripHashes(t, n) == substringFrom(t, n + SpaceRun(t, n))

\* the bullet test without the whitespace after the marker
matchesBulletMarkerOnly(t) == Len(t) >= 2 /\ IsBulletMarker(t[1])

\* trimmed.match(/^[-*•]\s/)
matchesBullet(t) == Len(t) >= 2 /\ IsBulletMarker(t[1]) /\ IsSpace(t[2])

\* number of \d characters of t from offset p on
RECURSIVE DigitRun(_, _)
DigitRun(t, p) == IF p < Len(t) /\ IsDigit(t[p + 1]) THEN 1 + DigitRun(t, p + 1) ELSE 0

\* the numbered test without the dot after the digits
matchesNumberedWithoutDot(t) ==
    LET d == DigitRun(t, 0)
    IN d >= 1 /\ d + 1 <= Len(t) /\ IsSpace(t[d + 1])

\* trimmed.match(/^\d+\.\s/)
matchesNumbered(t) ==
    LET d == DigitRun(t, 0)
    IN d >= 1 /\ d + 2 <= Len(t) /\ t[d + 1] = "." /\ IsSpace(t[d + 2])

\* formatLine with the test for `#` placed before the test for `##`
formatLineHashFirst(line, index) ==
    LET trimmed == trim(line)
    IN IF trimmed = <<>> THEN [type |-> "space", content |-> <<>>, index |-> index]
       ELSE IF startsWith(trimmed, <<"#">>)
       THEN [type |-> "h1", content |-> stripHashes(trimmed, 1), index |-> index]
       ELSE IF matchesBullet(trimmed)
       THEN [type |-> "bullet", content |-> substringFrom(trimmed, 2), index |-> index]
       ELSE IF matchesNumbered(trimmed)
       THEN [type |-> "numbered", content |-> trimmed, index |-> index]
       ELSE [type |-> "paragraph", content |-> trimmed, index |-> index]

\* the body of lines.forEach((line, index) => ...) in formatSummary
formatLine(line, index) ==
    LET trimmed == trim(line)
    IN IF trimmed = <<>> THEN [type |-> "space", content |-> <<>>, index |-> index]
       ELSE IF startsWith(trimmed, <<"#", "#">>)
       THEN [type |-> "h2", content |-> stripHashes(trimmed, 2), index |-> index]
       ELSE IF startsWith(trimmed, <<"#">>)
       THEN [type |-> "h1", content |-> stripHashes(trimmed, 1), index |-> index]
       ELSE IF matchesBullet(trimmed)
       THEN [type |-> "bullet", content |-> substringFrom(trimmed, 2), index |-> index]
       ELSE IF matchesNumbered(trimmed)
       THEN [type |-> "numbered", content |-> trimmed, index |-> index]
       ELSE [type |-> "paragraph", content |-> trimmed, index |-> index]

\* formatSummary without its `if (!text) return []`
formatSummaryUnguarded(t) ==
    LET lines == split(t)
    IN [k \in 1..Len(lines) |-> formatLine(lines[k], k - 1)]

formatSummary(t) ==
    IF t = <<>> THEN <<>>
    ELSE LET lines == split(t)
         IN [k \in 1..Len(lines) |-> formatLine(lines[k], k - 1)]

(***************************************************************************)
(* The display.  The component maps every block of formattedContent to one *)
(* element: its tag, whether the bullet glyph span precedes the content,   *)
(* and the children renderContent gives for the content.                   *)
(***************************************************************************)
DisplayElement(tag, glyph, children) ==
    [tag |-> tag, glyph |-> glyph, children |-> children]

\* switch (item.type) in formattedContent.map((item) => ...)
renderItem(item) ==
    IF item.type = "h1" THEN DisplayElement("h3", FALSE, renderContent(item.content))
    ELSE IF item.type = "h2" THEN DisplayElement("h4", FALSE, renderContent(item.content))
    ELSE IF item.type = "bullet" THEN DisplayElement("div", TRUE, renderContent(item.content))
    ELSE IF item.type = "numbered" THEN DisplayElement("p", FALSE, renderContent(item.content))
    ELSE IF item.type = "space" THEN DisplayElement("div", FALSE, <<>>)
    ELSE DisplayElement("p", FALSE, renderContent(item.content))

renderItems(items) == [k \in 1..Len(items) |-> renderItem(items[k])]

(***************************************************************************)
(* The export renderer.  convertToHTML appends one element to html for     *)
(* every line, between the opening and the closing tag of the wrapping     *)
(* div; html is modelled as the sequence of these elements, each with its  *)
(* tag, its style attribute, whether the bullet glyph span precedes the    *)
(* content, and the content put between its tags.                          *)
(***************************************************************************)
Element(tag, style, glyph, content) ==
    [tag |-> tag, style |-> style, glyph |-> glyph, content |-> content]

\* the tail of the body of lines.forEach((line) => ...) in convertToHTML, for a
\* trimmed line that is not empty
exportTrimmed(trimmed) ==
    IF startsWith(trimmed, <<"#", "#">>)
    THEN Element("h3", "font-size: 18px; font-weight: bold; margin-top: 16px; margin-bottom: 8px;",
                 FALSE, formatHTMLContent(stripHashes(trimmed, 2)))
    ELSE IF startsWith(trimmed, <<"#">>)
    THEN Element("h2", "font-size: 20px; font-weight: bold; margin-top: 20px; margin-bottom: 12px;",
                 FALSE, formatHTMLContent(stripHashes(trimmed, 1)))
    ELSE IF matchesBullet(trimmed)
    THEN Element("div", "margin-left: 20px; margin-bottom: 8px;",
                 TRUE, formatHTMLContent(substringFrom(trimmed, 2)))
    ELSE IF matchesNumbered(trimmed)
    THEN Element("p", "margin-left: 20px; margin-bottom: 8px;",
                 FALSE, formatHTMLContent(trimmed))
    ELSE Element("p", "margin-bottom: 12px;", FALSE, formatHTMLContent(trimmed))

\* exportLine without its test for an empty trimmed line
exportLineWithoutBlank(trimmed) == exportTrimmed(trimmed)

\* if (!trimmed) { html += '<br>\n'; return; }
exportLine(trimmed) ==
    IF trimmed = <<>> THEN Element("br", "", FALSE, <<>>) ELSE exportTrimmed(trimmed)

exportLines(lines) == [k \in 1..Len(lines) |-> exportLine(trim(lines[k]))]

convertToHTML(t) == exportLines(split(t))

(***************************************************************************)
(* Inputs.  A flat input is the concatenation of a bounded number of       *)
(* tokens of a vocabulary; a structured inline input is a short text       *)
(* inside two marker pairs.                                                *)
(***************************************************************************)
TokenSeqs(V, n) == UNION {[1..k -> V] : k \in 0..n}
Inputs(V, n) == {Concat(ts) : ts \in TokenSeqs(V, n)}

TokX        == <<"x">>
TokStars    == <<"*", "*">>
TokB        == <<"<", "b", ">">>
TokBEnd     == <<"<", "/", "b", ">">>
TokBUpper   == <<"<", "B", ">">>
TokBUpperEnd == <<"<", "/", "B", ">">>
TokStrong   == <<"<", "s", "t", "r", "o", "n", "g", ">">>
TokStrongEnd == <<"<", "/", "s", "t", "r", "o", "n", "g", ">">>
TokSpanRed  == <<"<", "s", "p", "a", "n", " ", "s", "t", "y", "l", "e", "=", "'",
                 "c", "o", "l", "o", "r", ":", "r", "e", "d", "'", ">">>
TokSpanHex  == <<"<", "s", "p", "a", "n", " ", "s", "t", "y", "l", "e", "=", "\"",
                 "c", "o", "l", "o", "r", ":", " ", "#", "f", "0", "0", ";", "\"", ">">>
TokSpanEnd  == <<"<", "/", "s", "p", "a", "n", ">">>
TokFontBlue == <<"<", "f", "o", "n", "t", " ", "c", "o", "l", "o", "r", "=", "\"",
                 "b", "l", "u", "e", "\"", ">">>
TokFontEnd  == <<"<", "/", "f", "o", "n", "t", ">">>
TokAmp      == <<"&", "a", "m", "p", ";">>

InlineVocabulary ==
    {TokX, TokStars, TokB, TokBEnd, TokSpanRed, TokSpanEnd, TokAmp}

\* the opening and closing marker of each recognised construct, and no marker
Pair(o, c) == [open |-> o, close |-> c]
MarkerPairs ==
    {Pair(TokStars, TokStars), Pair(TokB, TokBEnd), Pair(TokBUpper, TokBUpperEnd),
     Pair(TokStrong, TokStrongEnd), Pair(TokSpanRed, TokSpanEnd),
     Pair(TokSpanHex, TokSpanEnd), Pair(TokFontBlue, TokFontEnd), Pair(<<>>, <<>>)}

\* one pair around another, and two pairs that overlap without nesting
NestedBodies == Inputs({TokX, TokAmp}, MaxBodyTokens)
NestedInputs ==
    {o.open \o i.open \o b \o i.close \o o.close :
        o \in MarkerPairs, i \in MarkerPairs, b \in NestedBodies}
InterleavedInputs ==
    {o.open \o i.open \o b \o o.close \o i.close :
        o \in MarkerPairs, i \in MarkerPairs, b \in NestedBodies}

InlineInputs ==
    Inputs(InlineVocabulary, MaxInlineTokens) \cup NestedInputs \cup InterleavedInputs

TokLt     == <<"<">>
TokGt     == <<">">>
TokITag   == <<"<", "i", ">">>
TokEntLt  == <<"&", "l", "t", ";">>
TokEntGt  == <<"&", "g", "t", ";">>
TokLtTail == <<"l", "t", ";">>
TokNbsp   == <<"&", "n", "b", "s", "p", ";">>
TokQuot   == <<"&", "q", "u", "o", "t", ";">>
TokNum39  == <<"&", "#", "3", "9", ";">>
TokApos   == <<"&", "a", "p", "o", "s", ";">>

StripVocabulary ==
    {TokX, TokStars, TokLt, TokGt, TokITag, TokB, TokAmp, TokEntLt, TokEntGt, TokLtTail,
     TokNbsp, TokQuot, TokNum39, TokApos}

StripInputs == Inputs(StripVocabulary, MaxStripTokens)

TokNewline == <<"\n">>
TokSpace   == <<" ">>
TokHash    == <<"#">>
TokDash    == <<"-">>
TokStar    == <<"*">>
TokBullet  == <<"BULLET">>
TokOne     == <<"1">>
TokDot     == <<".">>

BlockVocabulary ==
    {TokX, TokNewline, TokSpace, TokHash, TokDash, TokStar, TokBullet, TokOne, TokDot}

\* a summary that ends with one bold or coloured run
InlineRuns ==
    {TokStars \o TokX \o TokStars, TokB \o TokX \o TokBEnd,
     TokFontBlue \o TokX \o TokFontEnd}
MarkedInputs ==
    {p \o r : p \in Inputs(BlockVocabulary, MaxBlockTokens - 1), r \in InlineRuns}

BlockInputs == Inputs(BlockVocabulary, MaxBlockTokens) \cup MarkedInputs

(***************************************************************************)
(* The operations, each applied to its argument.                           *)
(***************************************************************************)
\* useState(false) twice: no copy has been asked for
CopyIdle ==
    /\ copied = FALSE
    /\ copyError = FALSE
    /\ copies = <<>>
    /\ timers = <<>>
    /\ clipboard = <<>>
    /\ raiser = [copied |-> 0, copyError |-> 0]

\* no streaming query is running
StreamIdle ==
    /\ reads = <<>>
    /\ buffer = <<>>
    /\ delivered = <<>>
    /\ reader = "idle"

Start(inputs) ==
    /\ text \in inputs
    /\ pc = "ready"
    /\ parts = <<>>
    /\ formatted = <<>>
    /\ html = <<>>
    /\ plainText = <<>>
    /\ rendered = <<>>
    /\ CopyIdle
    /\ StreamIdle

\* parseHTMLColors(content), as renderContent calls it
ParseHTMLColors ==
    /\ pc = "ready"
    /\ parts' = parseHTMLColors(text)
    /\ pc' = "parseHTMLColors"
    /\ UNCHANGED <<text, formatted, html, plainText, rendered, copyVars, streamVars>>

\* parseBoldText(text, 'plain')
ParseBoldText ==
    /\ pc = "ready"
    /\ parts' = parseBoldText(text, 0)
    /\ pc' = "parseBoldText"
    /\ UNCHANGED <<text, formatted, html, plainText, rendered, copyVars, streamVars>>

\* formatHTMLContent(content), as convertToHTML calls it
FormatHTMLContent ==
    /\ pc = "ready"
    /\ html' = formatHTMLContent(text)
    /\ pc' = "formatHTMLContent"
    /\ UNCHANGED <<text, parts, formatted, plainText, rendered, copyVars, streamVars>>

\* const plainText = stripHTMLTags(summary)
StripHTMLTags ==
    /\ pc = "ready"
    /\ plainText' = stripHTMLTags(text)
    /\ pc' = "stripHTMLTags"
    /\ UNCHANGED <<text, parts, formatted, html, rendered, copyVars, streamVars>>

\* stripHTMLTags applied to the text it returned
StripAgain ==
    /\ pc = "stripHTMLTags"
    /\ plainText' = stripHTMLTags(plainText)
    /\ pc' = "stripAgain"
    /\ UNCHANGED <<text, parts, formatted, html, rendered, copyVars, streamVars>>

\* const formattedContent = formatSummary(summary)
FormatSummary ==
    /\ pc = "ready"
    /\ formatted' = formatSummary(text)
    /\ pc' = "formatSummary"
    /\ UNCHANGED <<text, parts, html, plainText, rendered, copyVars, streamVars>>

\* {formattedContent.map((item) => ...)}
Render ==
    /\ pc = "formatSummary"
    /\ rendered' = renderItems(formatted)
    /\ pc' = "render"
    /\ UNCHANGED <<text, parts, formatted, html, plainText, copyVars, streamVars>>

\* ${convertToHTML(summary)} in handleDownload, on the summary being displayed
ConvertToHTML ==
    /\ pc = "render"
    /\ html' = convertToHTML(text)
    /\ pc' = "convertToHTML"
    /\ UNCHANGED <<text, parts, formatted, plainText, rendered, copyVars, streamVars>>

(***************************************************************************)
(* The copy action.  handleCopy runs up to its await when the button is    *)
(* clicked; when the promise of navigator.clipboard.writeText settles it   *)
(* runs to its end: after a resolved promise the success branch, after a   *)
(* rejected one the execCommand fallback, which is synchronous.  The       *)
(* callbacks given to setTimeout run later, one at a time.                 *)
(***************************************************************************)
\* the local state of a call of handleCopy at its await
CopyCall(plain) ==
    [step |-> "writeText", plainText |-> plain, api |-> "pending", fallback |-> "none",
     raised |-> "none"]

\* the same call after it ran to its end
CopyDone(call, api, fallback, raised) ==
    [call EXCEPT !.step = "done", !.api = api, !.fallback = fallback, !.raised = raised]

\* setTimeout(() => setCopied(false), 2000) and
\* setTimeout(() => setCopyError(false), 3000), set by call c
Timer(flag, c) == [flag |-> flag, call |-> c]

\* a callback set earlier runs earlier, except that a 2000 ms one may overtake a
\* 3000 ms one
CanFire(i) ==
    \A j \in 1..(i - 1) : timers[j].flag = "copyError" /\ timers[i].flag = "copied"

RemoveAt(s, i) == SubSeq(s, 1, i - 1) \o SubSeq(s, i + 1, Len(s))

\* onClick={handleCopy}, up to await navigator.clipboard.writeText(plainText)
HandleCopy ==
    /\ Len(copies) < MaxCopies
    /\ copyError' = FALSE
    /\ copies' = Append(copies, CopyCall(stripHTMLTags(text)))
    /\ UNCHANGED <<text, markupVars, copied, timers, clipboard, raiser, streamVars>>

\* ClipboardResolves without its setTimeout
ClipboardResolvesWithoutTimer(c) ==
    /\ copies[c].step = "writeText"
    /\ clipboard' = Append(clipboard, copies[c].plainText)
    /\ copied' = TRUE
    /\ raiser' = [raiser EXCEPT !.copied = c]
    /\ copies' = [copies EXCEPT ![c] = CopyDone(@, "ok", "none", "copied")]
    /\ UNCHANGED <<text, markupVars, copyError, timers, streamVars>>

\* the promise resolves: setCopied(true); setTimeout(...); return
ClipboardResolves(c) ==
    /\ copies[c].step = "writeText"
    /\ clipboard' = Append(clipboard, copies[c].plainText)
    /\ copied' = TRUE
    /\ timers' = Append(timers, Timer("copied", c))
    /\ raiser' = [raiser EXCEPT !.copied = c]
    /\ copies' = [copies EXCEPT ![c] = CopyDone(@, "ok", "none", "copied")]
    /\ UNCHANGED <<text, markupVars, copyError, streamVars>>

\* the promise rejects and document.execCommand('copy') returns true
FallbackSucceeds(c) ==
    /\ copies[c].step = "writeText"
    /\ clipboard' = Append(clipboard, copies[c].plainText)
    /\ copied' = TRUE
    /\ timers' = Append(timers, Timer("copied", c))
    /\ raiser' = [raiser EXCEPT !.copied = c]
    /\ copies' = [copies EXCEPT ![c] = CopyDone(@, "failed", "ok", "copied")]
    /\ UNCHANGED <<text, markupVars, copyError, streamVars>>

\* the promise rejects and the fallback returns false or throws
FallbackFails(c) ==
    /\ copies[c].step = "writeText"
    /\ copyError' = TRUE
    /\ timers' = Append(timers, Timer("copyError", c))
    /\ raiser' = [raiser EXCEPT !.copyError = c]
    /\ copies' = [copies EXCEPT ![c] = CopyDone(@, "failed", "failed", "copyError")]
    /\ UNCHANGED <<text, markupVars, copied, clipboard, streamVars>>

\* a setTimeout callback runs: setCopied(false) or setCopyError(false)
TimerFires(i) ==
    /\ CanFire(i)
    /\ copied' = IF timers[i].flag = "copied" THEN FALSE ELSE copied
    /\ copyError' = IF timers[i].flag = "copyError" THEN FALSE ELSE copyError
    /\ timers' = RemoveAt(timers, i)
    /\ UNCHANGED <<text, markupVars, copies, clipboard, raiser, streamVars>>

\* the inline resolver and the inline export formatting, on inline fragments
Init == Start(InlineInputs)
Next == ParseHTMLColors \/ ParseBoldText \/ FormatHTMLContent
Spec == Init /\ [][Next]_vars

\* the plain-text extractor, on raw texts
InitStrip == Start(StripInputs)
NextStrip == StripHTMLTags \/ StripAgain
SpecStrip == InitStrip /\ [][NextStrip]_vars

\* the block classifier, the display and the export renderer, on multi-line
\* summaries
InitBlock == Start(BlockInputs)
NextBlock == FormatSummary \/ Render \/ ConvertToHTML
SpecBlock == InitBlock /\ [][NextBlock]_vars

\* the copy action, on a summary on display; SpecCopyLive adds that a pending
\* setTimeout callback runs in the end
CopyInputs == {TokB \o TokX \o TokBEnd, TokEntLt \o TokITag}
InitCopy == Start(CopyInputs)
NextCopy ==
    \/ HandleCopy
    \/ \E c \in 1..Len(copies) : ClipboardResolves(c)
    \/ \E c \in 1..Len(copies) : FallbackSucceeds(c)
    \/ \E c \in 1..Len(copies) : FallbackFails(c)
    \/ \E i \in 1..Len(timers) : TimerFires(i)
SpecCopy == InitCopy /\ [][NextCopy]_vars
SpecCopyLive == SpecCopy /\ WF_vars(\E i \in 1..Len(timers) : TimerFires(i))

(***************************************************************************)
(* sendStreamingChatQuery.  text is the body of the response, reads the    *)
(* values reader.read() is still to give, in order; buffer is the local    *)
(* variable of that name and delivered the arguments of the calls of       *)
(* onChunk so far.  The lines of the model hold digits, letters and        *)
(* spaces: JSON.parse gives the number a line of digits spells, space      *)
(* around it allowed, and throws a SyntaxError on every other line.        *)
(***************************************************************************)
DigitValue(c) ==
    CASE c = "0" -> 0 [] c = "1" -> 1 [] c = "2" -> 2 [] c = "3" -> 3 [] c = "4" -> 4
      [] c = "5" -> 5 [] c = "6" -> 6 [] c = "7" -> 7 [] c = "8" -> 8 [] c = "9" -> 9

\* the JSON grammar of a number without sign, fraction and exponent
IsJSONNumber(t) ==
    /\ t # <<>>
    /\ \A i \in 1..Len(t) : IsDigit(t[i])
    /\ Len(t) > 1 => t[1] # "0"

RECURSIVE NumberOf(_, _)
NumberOf(t, acc) ==
    IF t = <<>> THEN acc ELSE NumberOf(Tail(t), 10 * acc + DigitValue(Head(t)))

\* JSON.parse(line) returns, and what it returns
JSONParses(line) == IsJSONNumber(trim(line))
JSONParse(line) == NumberOf(trim(line), 0)

\* for (const line of lines) { if (line.trim()) { try { onChunk(JSON.parse(line)) }
\* catch (e) { console.error(...) } } }: the arguments of the calls of onChunk
RECURSIVE onChunkCalls(_)
onChunkCalls(lines) ==
    IF lines = <<>> THEN <<>>
    ELSE (IF trim(Head(lines)) # <<>> /\ JSONParses(Head(lines))
          THEN <<JSONParse(Head(lines))>> ELSE <<>>) \o onChunkCalls(Tail(lines))

\* lines.pop() and the lines it leaves
pop(lines) == lines[Len(lines)]
popped(lines) == SubSeq(lines, 1, Len(lines) - 1)

\* the response body cut into reads after the offsets of cuts
RECURSIVE CutAt(_, _, _)
CutAt(t, cuts, from) ==
    IF from >= Len(t) THEN <<>>
    ELSE IF {c \in cuts : c > from} = {} THEN <<substringFrom(t, from)>>
    ELSE <<substring(t, from, Min({c \in cuts : c > from}))>>
            \o CutAt(t, cuts, Min({c \in cuts : c > from}))

Chunkings(t) == {CutAt(t, cuts, 0) : cuts \in SUBSET (1..(Len(t) - 1))}

\* fetch(...) answers with a status that is not ok: the function throws
FetchFails ==
    /\ reader = "idle"
    /\ reader' = "failed"
    /\ UNCHANGED <<text, markupVars, copyVars, reads, buffer, delivered>>

\* fetch(...) answers ok: response.body.getReader(), let buffer = ''
FetchOk ==
    /\ reader = "idle"
    /\ reads' \in Chunkings(text)
    /\ buffer' = <<>>
    /\ reader' = "reading"
    /\ UNCHANGED <<text, markupVars, copyVars, delivered>>

\* one turn of while (true) in which reader.read() gives a value
ReadValue ==
    /\ reader = "reading"
    /\ reads # <<>>
    /\ reads' = Tail(reads)
    /\ buffer' = pop(split(buffer \o Head(reads)))
    /\ delivered' = delivered \o onChunkCalls(popped(split(buffer \o Head(reads))))
    /\ UNCHANGED <<text, markupVars, copyVars, reader>>

\* the turn in which reader.read() gives done: break
ReadDone ==
    /\ reader = "reading"
    /\ reads = <<>>
    /\ reader' = "done"
    /\ UNCHANGED <<text, markupVars, copyVars, reads, buffer, delivered>>

StreamVocabulary == {TokOne, TokX, TokSpace, TokNewline}
StreamInputs == Inputs(StreamVocabulary, MaxStreamTokens)
InitStream == Start(StreamInputs)
NextStream == FetchFails \/ FetchOk \/ ReadValue \/ ReadDone
SpecStream == InitStream /\ [][NextStream]_vars

(***************************************************************************)
(* Vocabulary of the properties.                                           *)
(***************************************************************************)
\* the text of the plain and bold leaves of a parts array, in order
RECURSIVE LeafText(_)
LeafText(ps) ==
    IF ps = <<>> THEN <<>>
    ELSE (IF Head(ps).type = "color" THEN LeafText(Head(ps).inner) ELSE Head(ps).text)
            \o LeafText(Tail(ps))

\* the characters of the parsed text a top-level part was cut from
PartStart(p) == p.base + p.index
PartEnd(p)   == p.base + p.index + p.length
PartRange(p) == PartStart(p)..(PartEnd(p) - 1)

Resolved == pc \in {"parseHTMLColors", "parseBoldText"}

\* no colour pattern and no bold pattern matches anywhere in t
NoRecognisedMarkup(t) == colorAllMatches(t) = <<>> /\ boldAllMatches(t) = <<>>

Contains(t, lit) == IndexOf(t, lit, 0) >= 0

\* the entities and the character each stands for
Entities ==
    {<<TokNbsp, " ">>, <<TokAmp, "&">>, <<TokEntLt, "<">>, <<TokEntGt, ">">>,
     <<TokQuot, "\"">>, <<TokNum39, "'">>, <<TokApos, "'">>}

EntityAt(t, i) == {e \in Entities : At(t, e[1], i)}

\* every entity of t replaced by its character, each occurrence decoded once
RECURSIVE DecodeOnce(_, _)
DecodeOnce(t, i) ==
    IF i >= Len(t) THEN <<>>
    ELSE IF EntityAt(t, i) # {}
    THEN LET e == CHOOSE e \in EntityAt(t, i) : TRUE
         IN <<e[2]>> \o DecodeOnce(t, i + Len(e[1]))
    ELSE <<t[i + 1]>> \o DecodeOnce(t, i + 1)

\* the matches left when every match that starts inside an earlier kept match
\* is discarded
RECURSIVE SelectDisjoint(_, _)
SelectDisjoint(ms, cursor) ==
    IF ms = <<>> THEN <<>>
    ELSE IF Head(ms).index < cursor THEN SelectDisjoint(Tail(ms), cursor)
    ELSE <<Head(ms)>> \o SelectDisjoint(Tail(ms), Head(ms).index + Head(ms).length)

\* t without its bold markers, and t without its colour tags and bold markers
BoldVisible(t) ==
    LET kept == SelectDisjoint(boldAllMatches(t), 0)
    IN replaceMatches(t, kept, [k \in 1..Len(kept) |-> kept[k].text], 0)

RECURSIVE VisibleWalk(_, _, _)
VisibleWalk(t, ms, from) ==
    IF ms = <<>> THEN BoldVisible(substringFrom(t, from))
    ELSE BoldVisible(substring(t, from, Head(ms).index)) \o BoldVisible(Head(ms).text)
            \o VisibleWalk(t, Tail(ms), Head(ms).index + Head(ms).length)

VisibleText(t) == VisibleWalk(t, SelectDisjoint(colorAllMatches(t), 0), 0)

(***************************************************************************)
(* The inline resolver: C1, C2, C4, C5, C10; the export formatting: C7.    *)
(***************************************************************************)

\* C1: the spans a parser emits cover pairwise-disjoint ranges of its input:
\* no input character contributes to two emitted spans.
C1_SpansDisjoint ==
    Resolved =>
        \A i, j \in 1..Len(parts) :
            i # j => PartRange(parts[i]) \cap PartRange(parts[j]) = {}

\* C2: the text of the leaves, concatenated in order, is the input with the
\* recognised tags and markers removed and the entities decoded.
C2_TextPreserved ==
    pc = "parseHTMLColors" => LeafText(parts) = DecodeOnce(VisibleText(text), 0)

\* t is `**` T `**` with T one complete colour tag
BoldWrappedTag(t) == substring(t, 2, Len(t) - 2)
IsBoldWrappedColorTag(t) ==
    /\ Len(t) >= 4
    /\ At(t, TokStars, 0)
    /\ At(t, TokStars, Len(t) - 2)
    /\ LET ms == colorAllMatches(BoldWrappedTag(t))
       IN Len(ms) = 1 /\ ms[1].index = 0 /\ ms[1].length = Len(t) - 4

\* C4 as stated: resolving `**` T `**`, T a complete colour tag, yields one
\* Bold span whose text is the literal T, and no Colored span.
C4_BoldKeepsTagLiteral ==
    pc = "parseHTMLColors" /\ IsBoldWrappedColorTag(text) =>
        /\ Len(parts) = 1
        /\ parts[1].type = "bold"
        /\ parts[1].text = BoldWrappedTag(text)

\* C4 as amended: resolving `**` T `**`, T a complete colour tag, interprets the
\* colour tag first: the result is Plain("**"), one Colored span for T with the
\* tag's colour, Plain("**"), and no Bold span encloses the tag.  Only the bold
\* walk on its own keeps T literal inside one Bold span (T holding no bold
\* marker of its own).
C4_ColorResolvedBeforeBold ==
    /\ pc = "parseHTMLColors" /\ IsBoldWrappedColorTag(text) =>
        /\ Len(parts) = 3
        /\ parts[1].type = "plain" /\ parts[1].text = TokStars
        /\ parts[2].type = "color"
        /\ parts[2].color = colorAllMatches(BoldWrappedTag(text))[1].color
        /\ PartStart(parts[2]) = 2 /\ PartEnd(parts[2]) = Len(text) - 2
        /\ \A k \in 1..Len(parts[2].inner) : parts[2].inner[k].type # "color"
        /\ parts[3].type = "plain" /\ parts[3].text = TokStars
    /\ pc = "parseBoldText" /\ IsBoldWrappedColorTag(text)
            /\ boldAllMatches(BoldWrappedTag(text)) = <<>>
            /\ ~Contains(BoldWrappedTag(text), TokStars) =>
        /\ Len(parts) = 1
        /\ parts[1].type = "bold"
        /\ parts[1].text = BoldWrappedTag(text)

C4_Witness ==
    /\ pc = "parseHTMLColors"
    /\ IsBoldWrappedColorTag(text)
    /\ Len(parts) = 3
    /\ parts[2].type = "color"
    /\ LeafText(parts[2].inner) = TokX

\* C5: the text of a Plain leaf is its stretch of the input with every entity
\* replaced by its character.
C5_EntitiesDecoded ==
    pc = "parseHTMLColors" =>
        \A k \in 1..Len(parts) :
            parts[k].type = "plain" =>
                parts[k].text =
                    DecodeOnce(substring(text, PartStart(parts[k]), PartEnd(parts[k])), 0)

\* C7: text that is not part of a recognised bold or colour tag is HTML-escaped
\* by the export formatting: a fragment without recognised markup leaves no raw
\* angle bracket in the HTML.
C7_ExportEscapes ==
    pc = "formatHTMLContent" /\ NoRecognisedMarkup(text) =>
        \A k \in 1..Len(html) : html[k] \notin {"<", ">"}

HasTag(t) == \E i, j \in 1..Len(t) : i < j /\ t[i] = "<" /\ t[j] = ">"

\* t with every tag dropped and every entity decoded once, in one pass from
\* left to right; every other character is kept
RECURSIVE ExtractOnce(_, _)
ExtractOnce(t, i) ==
    IF i >= Len(t) THEN <<>>
    ELSE IF t[i + 1] = "<" /\ IndexOf(t, <<">">>, i + 1) >= 0
    THEN ExtractOnce(t, IndexOf(t, <<">">>, i + 1) + 1)
    ELSE IF EntityAt(t, i) # {}
    THEN LET e == CHOOSE e \in EntityAt(t, i) : TRUE
         IN <<e[2]>> \o ExtractOnce(t, i + Len(e[1]))
    ELSE <<t[i + 1]>> \o ExtractOnce(t, i + 1)

\* C6 as stated: for a text without bold or colour markup, extracting the plain
\* text of the extracted plain text changes nothing.
C6_Idempotent ==
    pc = "stripAgain" /\ NoRecognisedMarkup(text) => plainText = stripHTMLTags(text)

\* C6 as amended: the same, for a text that holds no `&` either.
C6_IdempotentWithoutEntities ==
    pc = "stripAgain" /\ NoRecognisedMarkup(text) /\ ~Contains(text, <<"&">>) =>
        plainText = stripHTMLTags(text)

C6_Witness ==
    /\ pc = "stripAgain"
    /\ NoRecognisedMarkup(text)
    /\ ~Contains(text, <<"&">>)
    /\ Contains(text, TokITag)
    /\ Contains(text, TokGt \o TokX)
    /\ plainText = stripHTMLTags(text)

\* C8: the extractor removes the tags, decodes the entities, and keeps every
\* other character as it is and where it is.
C8_KeepsEverythingElse ==
    pc = "stripHTMLTags" => plainText = ExtractOnce(text, 0)

\* C9 as stated: the extracted text holds no `<` ... `>`.
C9_NoTagInOutput ==
    pc = "stripHTMLTags" => ~HasTag(plainText)

\* C9 as amended: the text left by the tag removal holds no `<` ... `>`, and
\* neither does the extracted text of an input that holds no `&`; decoding
\* `&lt;` and `&gt;`, which follows the tag removal, can write one.
C9_NoTagBeforeDecoding ==
    pc = "stripHTMLTags" =>
        /\ ~HasTag(removeTags(text))
        /\ ~Contains(text, <<"&">>) => ~HasTag(plainText)

C9_Witness ==
    /\ pc = "stripHTMLTags"
    /\ ~Contains(text, <<"&">>)
    /\ Contains(text, TokITag)
    /\ Contains(text, TokLt)
    /\ plainText = TokX \o TokLt

(***************************************************************************)
(* The block classifier: C3.                                               *)
(***************************************************************************)
\* the lines of t, counted and cut by its newline characters
NewlineOffsets(t) == {i \in 0..(Len(t) - 1) : t[i + 1] = "\n"}
LineCount(t) == Cardinality(NewlineOffsets(t)) + 1
\* line k (from 1): from after the (k-1)-th newline up to the k-th
LineStart(t, k) ==
    IF k = 1 THEN 0
    ELSE 1 + CHOOSE i \in NewlineOffsets(t) :
                Cardinality({o \in NewlineOffsets(t) : o < i}) = k - 2
LineEnd(t, k) ==
    IF k = LineCount(t) THEN Len(t)
    ELSE CHOOSE i \in NewlineOffsets(t) :
            Cardinality({o \in NewlineOffsets(t) : o < i}) = k - 1
Line(t, k) == substring(t, LineStart(t, k), LineEnd(t, k))

\* C3 as stated: one block per line of the input, the empty string included.
C3_OneBlockPerLine ==
    pc = "formatSummary" => Len(formatted) = LineCount(text)

\* C3 as amended: a non-empty input of n lines gives n blocks, block i carrying
\* index i and being what line i gives when classified alone; the empty string
\* gives no block.
C3_OneBlockPerLineOfNonEmpty ==
    pc = "formatSummary" =>
        IF text = <<>> THEN formatted = <<>>
        ELSE /\ Len(formatted) = LineCount(text)
             /\ \A k \in 1..Len(formatted) :
                    /\ formatted[k].index = k - 1
                    /\ formatted[k] = formatLine(Line(text, k), k - 1)
                    /\ formatted[k].type = "space" <=> trim(Line(text, k)) = <<>>

C3_Witness ==
    /\ pc = "formatSummary"
    /\ Len(formatted) = 3
    /\ formatted[1].type = "h1"
    /\ formatted[2].type = "space"
    /\ formatted[3].type = "paragraph"

(***************************************************************************)
(* The block classifier: C11, C14 - C19.                                   *)
(***************************************************************************)
\* C11: classifying the empty string returns zero blocks.
C11_EmptyGivesNoBlock ==
    pc = "formatSummary" /\ text = <<>> => Len(formatted) = 0

C11_Witness ==
    /\ pc = "formatSummary"
    /\ text = <<>>
    /\ formatted = <<>>

\* the states in which the lines have been classified, and the trimmed form of
\* line k of the summary
Classified == pc \in {"formatSummary", "render", "convertToHTML"}
Rendered == pc \in {"render", "convertToHTML"}
Exported == pc = "convertToHTML"
Trimmed(k) == trim(Line(text, k))

\* t without its first character when that is a space
DropOneSpace(t) == IF Len(t) >= 1 /\ t[1] = " " THEN Tail(t) ELSE t

\* C14: the content of a heading is the trimmed line without its leading `#`
\* (level 1) or `##` (level 2) and without at most one space after it; every
\* further character, further spaces included, is kept.  The same holds for the
\* content the export renderer formats.
C14_HeadingContent ==
    /\ Classified =>
            \A k \in 1..Len(formatted) :
                /\ formatted[k].type = "h1" =>
                        formatted[k].content = DropOneSpace(substringFrom(Trimmed(k), 1))
                /\ formatted[k].type = "h2" =>
                        formatted[k].content = DropOneSpace(substringFrom(Trimmed(k), 2))
    /\ Exported =>
            \A k \in 1..Len(html) :
                /\ html[k].tag = "h2" =>
                        html[k].content =
                            formatHTMLContent(DropOneSpace(substringFrom(Trimmed(k), 1)))
                /\ html[k].tag = "h3" =>
                        html[k].content =
                            formatHTMLContent(DropOneSpace(substringFrom(Trimmed(k), 2)))

(***************************************************************************)
(* Colour nesting: C12, C13.                                               *)
(***************************************************************************)
\* the colour tags of the inputs with the colour each carries, and the bold runs
ColorTags ==
    {<<Pair(TokSpanRed, TokSpanEnd), <<"r", "e", "d">>>>,
     <<Pair(TokSpanHex, TokSpanEnd), <<"#", "f", "0", "0">>>>,
     <<Pair(TokFontBlue, TokFontEnd), <<"b", "l", "u", "e">>>>}
BoldRuns ==
    {Pair(TokStars, TokStars), Pair(TokB, TokBEnd), Pair(TokBUpper, TokBUpperEnd),
     Pair(TokStrong, TokStrongEnd)}

\* one colour tag whose inner text is one bold run of the text body
ColoredBold(c, b, body) == c[1].open \o b.open \o body \o b.close \o c[1].close

\* C12: a colour tag whose inner text is one bold run resolves to exactly one
\* Colored span with the tag's colour, whose inner sequence is exactly one Bold
\* span holding the bold text (compared for a bold text without entities, whose
\* decoding is another matter).
C12_ColourNesting ==
    pc = "parseHTMLColors" =>
        \A c \in ColorTags, b \in BoldRuns, body \in NestedBodies :
            text = ColoredBold(c, b, body) =>
                /\ Len(parts) = 1
                /\ parts[1].type = "color"
                /\ parts[1].color = c[2]
                /\ Len(parts[1].inner) = 1
                /\ parts[1].inner[1].type = "bold"
                /\ (~Contains(body, <<"&">>) => parts[1].inner[1].text = body)

C12_Witness ==
    /\ pc = "parseHTMLColors"
    /\ text = TokSpanRed \o TokStars \o TokX \o TokStars \o TokSpanEnd
    /\ Len(parts) = 1
    /\ parts[1].color = <<"r", "e", "d">>
    /\ parts[1].inner[1].type = "bold"
    /\ parts[1].inner[1].text = TokX

\* C13: the inner sequence of a Colored span holds only Plain and Bold spans, and
\* a colour tag that lies inside the inner text of a colour match does not
\* become a Colored span of its own.
C13_SingleLevelColour ==
    pc = "parseHTMLColors" =>
        /\ \A k \in 1..Len(parts) :
                parts[k].type = "color" =>
                    \A n \in 1..Len(parts[k].inner) :
                        parts[k].inner[n].type \in {"plain", "bold"}
        /\ \A j \in 1..Len(parts), k \in 1..Len(parts) :
                (j # k /\ parts[j].type = "color" /\ parts[k].type = "color") =>
                    PartStart(parts[k]) \notin PartRange(parts[j])

\* the number of `#` characters the sequence t starts with
RECURSIVE LeadingHashes(_)
LeadingHashes(t) ==
    IF t # <<>> /\ Head(t) = "#" THEN 1 + LeadingHashes(Tail(t)) ELSE 0

\* C15: a line whose trimmed form starts with two or more `#` is a level 2
\* heading, one whose trimmed form starts with exactly one `#` is a level 1
\* heading, and no other line is a heading; `## Title` has the content `Title`
\* and so has `# Title`.
C15_HeadingLevel ==
    Classified =>
        \A k \in 1..Len(formatted) :
            /\ formatted[k].type = "h2" <=> LeadingHashes(Trimmed(k)) >= 2
            /\ formatted[k].type = "h1" <=> LeadingHashes(Trimmed(k)) = 1
            /\ \A n \in 1..2 :
                    (/\ LeadingHashes(Trimmed(k)) = n
                     /\ Len(Trimmed(k)) >= n + 2
                     /\ Trimmed(k)[n + 1] = " "
                     /\ Trimmed(k)[n + 2] # " ")
                        => formatted[k].content = SubSeq(Trimmed(k), n + 2, Len(Trimmed(k)))

C15_Witness ==
    /\ pc = "formatSummary"
    /\ text = TokHash \o TokHash \o TokSpace \o TokX
    /\ Len(formatted) = 1
    /\ formatted[1].type = "h2"
    /\ formatted[1].content = TokX

\* the trimmed line t begins with `-`, `*` or the bullet character followed by a
\* whitespace character
BeginsWithBullet(t) == Len(t) >= 2 /\ t[1] \in {"-", "*", "BULLET"} /\ IsSpace(t[2])

\* C16: exactly the lines whose trimmed form begins with `-`, `*` or the bullet
\* character followed by whitespace are Bullet blocks, and the content of a Bullet
\* is the trimmed line after the marker and the whitespace character that
\* follows it: `- x`, `* x` and the same with the bullet character give `x`.
C16_BulletStripping ==
    Classified =>
        \A k \in 1..Len(formatted) :
            /\ formatted[k].type = "bullet" <=> BeginsWithBullet(Trimmed(k))
            /\ formatted[k].type = "bullet" =>
                    formatted[k].content = SubSeq(Trimmed(k), 3, Len(Trimmed(k)))
            /\ \A m \in {TokDash, TokStar, TokBullet} :
                    Trimmed(k) = m \o TokSpace \o TokX =>
                        formatted[k] = [type |-> "bullet", content |-> TokX, index |-> k - 1]

C16_Witness ==
    /\ pc = "formatSummary"
    /\ text = TokBullet \o TokSpace \o TokX \o TokNewline
    /\ Len(formatted) = 2
    /\ formatted[1].type = "bullet"
    /\ formatted[1].content = TokX

\* the number of digits the sequence t starts with
RECURSIVE LeadingDigits(_)
LeadingDigits(t) ==
    IF t # <<>> /\ IsDigit(Head(t)) THEN 1 + LeadingDigits(Tail(t)) ELSE 0

\* the trimmed line t begins with digits, a dot and a whitespace character
BeginsWithNumber(t) ==
    /\ LeadingDigits(t) >= 1
    /\ Len(t) >= LeadingDigits(t) + 2
    /\ t[LeadingDigits(t) + 1] = "."
    /\ IsSpace(t[LeadingDigits(t) + 2])

\* the `<digits>.` prefix of a numbered line
NumberPrefix(t) == SubSeq(t, 1, LeadingDigits(t) + 1)

\* C17: exactly the lines whose trimmed form begins with digits, a dot and
\* whitespace are Numbered blocks; the content of a Numbered block is the whole
\* trimmed line, and the export renderer puts the line in a `<p>` whose content
\* starts with the same `<digits>.` prefix and, inline formatting apart, is the
\* whole trimmed line.
C17_NumberedKeepsPrefix ==
    /\ Classified =>
            \A k \in 1..Len(formatted) :
                /\ formatted[k].type = "numbered" <=> BeginsWithNumber(Trimmed(k))
                /\ formatted[k].type = "numbered" => formatted[k].content = Trimmed(k)
    /\ Exported =>
            \A k \in 1..Len(html) :
                BeginsWithNumber(Trimmed(k)) =>
                    /\ html[k].tag = "p"
                    /\ Len(html[k].content) >= Len(NumberPrefix(Trimmed(k)))
                    /\ NumberPrefix(html[k].content) = NumberPrefix(Trimmed(k))
                    /\ NoRecognisedMarkup(Trimmed(k)) => html[k].content = Trimmed(k)

C17_Witness ==
    /\ pc = "convertToHTML"
    /\ text = TokOne \o TokDot \o TokSpace \o TokStars \o TokX \o TokStars
    /\ formatted = <<[type |-> "numbered", content |-> text, index |-> 0]>>
    /\ Len(html) = 1
    /\ html[1].tag = "p"
    /\ html[1].content = TokOne \o TokDot \o TokSpace \o TokStrong \o TokX \o TokStrongEnd

\* the kind of a trimmed line by the first rule that applies, in the order
\* blank, `##` heading, `#` heading, bullet, numbered, paragraph
KindOf(t) ==
    IF t = <<>> THEN "space"
    ELSE IF LeadingHashes(t) >= 2 THEN "h2"
    ELSE IF LeadingHashes(t) = 1 THEN "h1"
    ELSE IF BeginsWithBullet(t) THEN "bullet"
    ELSE IF BeginsWithNumber(t) THEN "numbered"
    ELSE "paragraph"

\* C18: every line gets exactly one kind, that of the first rule that applies in
\* the order blank, `##` heading, `#` heading, bullet, numbered, paragraph; a
\* Paragraph has the trimmed line as content, and a line that starts with the
\* bold marker `**` is a Paragraph, not a Bullet.
C18_TotalWithPrecedence ==
    Classified /\ text # <<>> =>
        /\ Len(formatted) = LineCount(text)
        /\ \A k \in 1..Len(formatted) :
                /\ formatted[k].type = KindOf(Trimmed(k))
                /\ formatted[k].type = "paragraph" => formatted[k].content = Trimmed(k)
                /\ (Len(Trimmed(k)) >= 2 /\ Trimmed(k)[1] = "*" /\ Trimmed(k)[2] = "*")
                        => formatted[k].type = "paragraph"

C18_Witness ==
    /\ pc = "formatSummary"
    /\ text = TokStars \o TokX \o TokStars
    /\ formatted = <<[type |-> "paragraph", content |-> text, index |-> 0]>>

\* C19: a line whose content is empty is not dropped: it yields a block of its
\* kind with empty content (a line that is only `#` or only `##` yields a
\* Heading of level 1 or 2), and the element rendered for that block has no
\* spans.
C19_EmptyContentKept ==
    Rendered /\ text # <<>> =>
        /\ Len(formatted) = LineCount(text)
        /\ Len(rendered) = Len(formatted)
        /\ \A k \in 1..Len(formatted) :
                /\ Trimmed(k) = <<"#">> =>
                        formatted[k] = [type |-> "h1", content |-> <<>>, index |-> k - 1]
                /\ Trimmed(k) = <<"#", "#">> =>
                        formatted[k] = [type |-> "h2", content |-> <<>>, index |-> k - 1]
                /\ formatted[k].content = <<>> =>
                        /\ formatted[k].type = KindOf(Trimmed(k))
                        /\ rendered[k].children = <<>>

C19_Witness ==
    /\ pc = "render"
    /\ text = TokHash \o TokNewline \o TokHash \o TokHash
    /\ formatted = <<[type |-> "h1", content |-> <<>>, index |-> 0],
                     [type |-> "h2", content |-> <<>>, index |-> 1]>>
    /\ rendered = <<DisplayElement("h3", FALSE, <<>>), DisplayElement("h4", FALSE, <<>>)>>

(***************************************************************************)
(* The export renderer: C20.                                               *)
(***************************************************************************)
\* the tag of the element the export emits for a line of each kind
ExportTag(kind) ==
    CASE kind = "h1" -> "h2"
      [] kind = "h2" -> "h3"
      [] kind = "bullet" -> "div"
      [] kind = "numbered" -> "p"
      [] kind = "paragraph" -> "p"
      [] kind = "space" -> "br"

\* C20: the export renderer emits exactly one element per input line, in line
\* order, chosen by the kind of the line: `<h2>` for a level 1 heading, `<h3>`
\* for a level 2 heading, a `<div>` with the bullet glyph for a bullet, `<p>` for
\* a numbered line and for a paragraph, `<br>` for a blank line.
C20_ExportBlockMapping ==
    Exported =>
        /\ Len(html) = LineCount(text)
        /\ \A k \in 1..Len(html) :
                /\ html[k].tag = ExportTag(KindOf(Trimmed(k)))
                /\ html[k].glyph <=> KindOf(Trimmed(k)) = "bullet"

C20_Witness ==
    /\ pc = "convertToHTML"
    /\ text = TokHash \o TokNewline \o TokNewline \o TokX
    /\ Len(html) = 3
    /\ html[1].tag = "h2"
    /\ html[2].tag = "br"
    /\ html[3].tag = "p"

(***************************************************************************)
(* The plain-text extractor: C21, C28.                                     *)
(***************************************************************************)
\* t from offset i on without its tags: a `<` with a `>` after it goes with
\* everything up to the first such `>`, every other character is kept
RECURSIVE DropTags(_, _)
DropTags(t, i) ==
    IF i >= Len(t) THEN <<>>
    ELSE IF t[i + 1] = "<" /\ IndexOf(t, <<">">>, i + 1) >= 0
    THEN DropTags(t, IndexOf(t, <<">">>, i + 1) + 1)
    ELSE <<t[i + 1]>> \o DropTags(t, i + 1)

\* the offsets of the `*` characters of t, and the k-th of them
StarOffsets(t) == {i \in 0..(Len(t) - 1) : t[i + 1] = "*"}
NthStar(t, k) ==
    CHOOSE i \in StarOffsets(t) : Cardinality({o \in StarOffsets(t) : o < i}) = k - 1

\* C21: the extractor keeps the bold markers: the extracted text has as many `*`
\* as the raw text has outside its tags, and what precedes the k-th of them is
\* what precedes the k-th of the raw text, tags removed and entities decoded.
C21_BoldMarkersKept ==
    pc = "stripHTMLTags" =>
        /\ Cardinality(StarOffsets(plainText)) = Cardinality(StarOffsets(DropTags(text, 0)))
        /\ \A k \in 1..Cardinality(StarOffsets(plainText)) :
                substring(plainText, 0, NthStar(plainText, k)) =
                    decodeEntities(substring(DropTags(text, 0), 0, NthStar(DropTags(text, 0), k)))

C21_Witness ==
    /\ pc = "stripHTMLTags"
    /\ text = TokAmp \o TokB \o TokStars
    /\ plainText = <<"&", "*", "*">>

(***************************************************************************)
(* Display against export: C22, C23.                                       *)
(***************************************************************************)
\* the texts of the Bold spans of a parts array, in order, and the colour and
\* text of its Colored spans
RECURSIVE BoldRuns_Display(_)
BoldRuns_Display(ps) ==
    IF ps = <<>> THEN <<>>
    ELSE (IF Head(ps).type = "bold" THEN <<Head(ps).text>>
          ELSE IF Head(ps).type = "color" THEN BoldRuns_Display(Head(ps).inner)
          ELSE <<>>) \o BoldRuns_Display(Tail(ps))
RECURSIVE ColorRuns_Display(_)
ColorRuns_Display(ps) ==
    IF ps = <<>> THEN <<>>
    ELSE (IF Head(ps).type = "color"
          THEN <<[color |-> Head(ps).color, text |-> LeafText(Head(ps).inner)]>>
          ELSE <<>>) \o ColorRuns_Display(Tail(ps))

\* the texts the exported HTML h puts in `<strong>`, in order, and the colour
\* and text of what it puts in a colour `<span>`
BoldRuns_Export(h) ==
    [k \in 1..Len(strongTagMatches(h)) |-> DropTags(strongTagMatches(h)[k].text, 0)]
ColorRuns_Export(h) ==
    [k \in 1..Len(spanMatches(h)) |->
        [color |-> trim(spanMatches(h)[k].color), text |-> DropTags(spanMatches(h)[k].text, 0)]]

\* C22: display and export agree on an inline fragment: the runs the export
\* wraps in `<strong>` or in a colour `<span>` are the runs the display marks
\* Bold or Colored, and the visible text, markup apart, is the same.
C22_DisplayExportAgree ==
    pc = "parseHTMLColors" =>
        /\ BoldRuns_Export(formatHTMLContent(text)) = BoldRuns_Display(parts)
        /\ ColorRuns_Export(formatHTMLContent(text)) = ColorRuns_Display(parts)
        /\ DropTags(formatHTMLContent(text), 0) = LeafText(parts)

WalkStart == [parts |-> <<>>, lastIndex |-> 0]
MatchEnd(m) == m.index + m.length

\* lastIndex of the bold walk and of the colour walk of t after the first k
\* matches
BoldCursor(t, k) == boldWalk(t, 0, SubSeq(boldAllMatches(t), 1, k), WalkStart).lastIndex
ColorCursor(t, k) == colorWalk(t, SubSeq(colorAllMatches(t), 1, k), WalkStart).lastIndex

\* C24: in the bold walk and in the colour walk the matches come in ascending
\* start offset, the cursor never decreases, after a match it is at the end of
\* that match, every match starts at or after the cursor it meets, and the
\* trailing gap starts at the largest end of all matches.
C24_LeftToRightWalk ==
    /\ pc = "parseBoldText" =>
            \A k \in 1..Len(boldAllMatches(text)) :
                /\ k > 1 => boldAllMatches(text)[k - 1].index <= boldAllMatches(text)[k].index
                /\ BoldCursor(text, k) = MatchEnd(boldAllMatches(text)[k])
                /\ BoldCursor(text, k) >= BoldCursor(text, k - 1)
                /\ boldAllMatches(text)[k].index >= BoldCursor(text, k - 1)
                /\ BoldCursor(text, Len(boldAllMatches(text))) >= MatchEnd(boldAllMatches(text)[k])
    /\ pc = "parseHTMLColors" =>
            \A k \in 1..Len(colorAllMatches(text)) :
                /\ k > 1 => colorAllMatches(text)[k - 1].index <= colorAllMatches(text)[k].index
                /\ ColorCursor(text, k) = MatchEnd(colorAllMatches(text)[k])
                /\ ColorCursor(text, k) >= ColorCursor(text, k - 1)
                /\ colorAllMatches(text)[k].index >= ColorCursor(text, k - 1)
                /\ ColorCursor(text, Len(colorAllMatches(text))) >= MatchEnd(colorAllMatches(text)[k])

\* the matches ms of one scanning loop over a text of len characters hold at
\* least n characters each, follow one another without overlap and end inside
\* the text
ScanAdvances(ms, n, len) ==
    /\ Len(ms) <= len
    /\ \A k \in 1..Len(ms) :
            /\ ms[k].length >= n
            /\ ms[k].index >= 0
            /\ MatchEnd(ms[k]) <= len
            /\ k > 1 => ms[k].index >= MatchEnd(ms[k - 1])

\* the number of spans of a parts array, the inner spans of Colored included
RECURSIVE SpanCount(_)
SpanCount(ps) ==
    IF ps = <<>> THEN 0
    ELSE 1 + SpanCount(Head(ps).inner) + SpanCount(Tail(ps))

\* C25: every match of the five patterns holds at least its marker characters
\* (`****`, `<b></b>`, `<strong></strong>`, `<span style='color:c'></span>`,
\* `<font color='c'></font>`), so it is not empty; in every scanning loop a match
\* starts at or after the end of the match before it and ends inside the text,
\* so the loop makes no more turns than the text has characters; and a text
\* that is not empty resolves to no more spans than it has characters.
C25_ScansAdvance ==
    Resolved =>
        /\ ScanAdvances(markdownBoldMatches(text), 4, Len(text))
        /\ ScanAdvances(bTagMatches(text), 7, Len(text))
        /\ ScanAdvances(strongTagMatches(text), 17, Len(text))
        /\ ScanAdvances(spanMatches(text), 29, Len(text))
        /\ ScanAdvances(fontMatches(text), 23, Len(text))
        /\ text # <<>> => SpanCount(parts) <= Len(text)

C25_Witness ==
    /\ pc = "parseHTMLColors"
    /\ text = TokStars \o TokStars \o TokB \o TokBEnd
    /\ Len(parts) = 2
    /\ parts[1].type = "bold" /\ parts[1].text = <<>> /\ parts[1].length = 4
    /\ parts[2].type = "bold" /\ parts[2].text = <<>> /\ parts[2].length = 7

(***************************************************************************)
(* The copy action: C26, C27.                                              *)
(***************************************************************************)
FlagUp(flag) == IF flag = "copied" THEN copied ELSE copyError

\* what every call of handleCopy has done so far
CopyProtocolHolds ==
    /\ \A c \in 1..Len(copies) :
            /\ copies[c].plainText = stripHTMLTags(text)
            /\ copies[c].fallback # "none" => copies[c].api = "failed"
            /\ copies[c].raised = "copied" <=>
                    (copies[c].api = "ok" \/ copies[c].fallback = "ok")
            /\ copies[c].raised = "copyError" <=>
                    (copies[c].api = "failed" /\ copies[c].fallback = "failed")
            /\ copies[c].step = "done" <=> copies[c].raised \in {"copied", "copyError"}
    /\ \A k \in 1..Len(clipboard) : clipboard[k] = stripHTMLTags(text)
    /\ Len(clipboard) = Cardinality({c \in 1..Len(copies) : copies[c].raised = "copied"})
    /\ \A flag \in {"copied", "copyError"} :
            FlagUp(flag) =>
                /\ raiser[flag] \in 1..Len(copies)
                /\ copies[raiser[flag]].raised = flag
                /\ \E i \in 1..Len(timers) : timers[i] = Timer(flag, raiser[flag])

\* C26: every call of handleCopy writes stripHTMLTags(summary); the fallback
\* runs only after the Clipboard API failed; a call that has completed has
\* raised exactly one flag, copied after a write that succeeded and copyError
\* after both failed; while a flag is up the timer set when it was raised is
\* pending, and every flag that is up is down again later.
C26_CopyProtocol ==
    /\ []CopyProtocolHolds
    /\ (copied ~> ~copied)
    /\ (copyError ~> ~copyError)

C26_Witness ==
    /\ Len(copies) = 2
    /\ text = TokB \o TokX \o TokBEnd
    /\ copies[1].api = "failed" /\ copies[1].fallback = "ok"
    /\ copies[2].raised = "copyError"
    /\ clipboard = <<TokX>>
    /\ ~copied
    /\ copyError
    /\ timers = <<Timer("copyError", 2)>>

\* C27: copied and copyError are never both true, and a timer set by an earlier
\* call of handleCopy never clears a flag that a later call raised.
C27_FlagsExclusive ==
    /\ [](~(copied /\ copyError))
    /\ [][\A i \in 1..Len(timers) :
            (TimerFires(i) /\ FlagUp(timers[i].flag)) =>
                timers[i].call = raiser[timers[i].flag]]_vars


\* C28: the entity decoding is one pass over the text the tag removal leaves:
\* every entity occurrence of that text is replaced by its character once, and
\* a character written by one replacement is never read as part of another
\* entity (`&amp;lt;` gives `&lt;`, `&amp;amp;` gives `&amp;`).
C28_SinglePassDecoding ==
    pc = "stripHTMLTags" => plainText = DecodeOnce(DropTags(text, 0), 0)


(***************************************************************************)
(* Lines that hold a marker and nothing else: C29.                         *)
(***************************************************************************)
\* a bullet marker alone, or digits and a dot alone
IsBareMarker(t) ==
    \/ Len(t) = 1 /\ t[1] \in {"-", "*", "BULLET"}
    \/ Len(t) >= 2 /\ LeadingDigits(t) = Len(t) - 1 /\ t[Len(t)] = "."

\* the line without the whitespace around it
InkOffsets(line) == {i \in 1..Len(line) : ~IsSpace(line[i])}
Ink(line) ==
    IF InkOffsets(line) = {} THEN <<>>
    ELSE SubSeq(line, Min(InkOffsets(line)), Len(line) - Min({Len(line) - i : i \in InkOffsets(line)}))

ParagraphStyle == "margin-bottom: 12px;"

\* a block of the display, and an element of the export, against the line it
\* was made from, whitespace around it removed
BlockNeedsContent(item, ink) ==
    /\ item.type \in {"bullet", "numbered"} => item.content # <<>>
    /\ IsBareMarker(ink) => (item.type = "paragraph" /\ item.content = ink)

ElementNeedsContent(element, ink) ==
    /\ (element.glyph \/ (element.tag = "p" /\ element.style # ParagraphStyle)) =>
            element.content # <<>>
    /\ IsBareMarker(ink) => element = Element("p", ParagraphStyle, FALSE, ink)

\* C29: no bullet and no numbered block has empty content, on the display and
\* in the export; a line that holds only a bullet marker or only digits and a
\* dot, whatever whitespace surrounds it, is a paragraph whose content is the
\* bare marker, on the display and in the export.
C29_MarkerNeedsContent ==
    /\ Classified =>
            \A k \in 1..Len(formatted) : BlockNeedsContent(formatted[k], Ink(Line(text, k)))
    /\ Exported =>
            \A k \in 1..Len(html) : ElementNeedsContent(html[k], Ink(Line(text, k)))

C29_Witness ==
    /\ pc = "convertToHTML"
    /\ text = TokOne \o TokDot \o TokSpace \o TokNewline
    /\ formatted[1] = [type |-> "paragraph", content |-> TokOne \o TokDot, index |-> 0]
    /\ html[1] = Element("p", ParagraphStyle, FALSE, TokOne \o TokDot)


(***************************************************************************)
(* The streamed answer: C30.                                               *)
(***************************************************************************)
\* what a reader of newline-delimited JSON gives for the lines k, k + 1, ... of
\* the body t: the value of every line that parses, in order; blank lines and
\* lines that do not parse give nothing
RECURSIVE LinesDelivered(_, _)
LinesDelivered(t, k) ==
    IF k > LineCount(t) THEN <<>>
    ELSE (IF JSONParses(Line(t, k)) THEN <<JSONParse(Line(t, k))>> ELSE <<>>)
            \o LinesDelivered(t, k + 1)

\* C30: when the stream has ended, onChunk has been called once for every
\* non-blank line of the body that parses, in stream order, however the body
\* was cut into reads, the last line included when no newline follows it.
C30_EveryLineDelivered ==
    reader = "done" => delivered = LinesDelivered(text, 1)

====
